---- MODULE Spec2Model ----
(***************************************************************************)
(* The phase sequencer of src/main.py: one Streamlit session holding a     *)
(* registry of assistants, one chat state per assistant                    *)
(* (st.session_state['assistant_chat_histories']), one session-wide        *)
(* thread handle (st.session_state['thread_id']) and the remote gateway    *)
(* the handlers of chat_section, display_tabs and reset_chat talk to.      *)
(* Every action is one script run: the click of one widget, the handler    *)
(* it triggers and the gateway exchange that handler makes.                *)
(***************************************************************************)
EXTENDS Integers, Sequences, FiniteSets, Bags, TLC

\* ------------------------------------------------------------------ bounds

\* Threads the gateway creates in one run of the model.
MaxThreads == 2
\* Workflow templates posted between two resets that got no reply.
MaxLost == 1
\* Entries of the list handed to display_tabs.
MaxTabs == 2
\* Runs the gateway creates in one run of the stepwise model.
MaxRuns == 2
\* Entries of chat_history in the free chat.
MaxChat == 2
\* Vector stores the gateway creates in one run of the sidebar's model.
MaxStores == 1
\* Files a vector store holds.
MaxDocs == 4
\* The calls of runs.retrieve one invocation of chat_with_assistant counts.
MaxPolls == 2

\* --------------------------------------------------------------- constants

\* The assistants a session may hold and their metadata['type'].
Agents == {"P", "G", "F"}

AssistantType(a) ==
    IF a = "P" THEN "Pitch Deck Creator"
    ELSE IF a = "G" THEN "Grant Assistant"
    ELSE "Custom Assistant"

\* The labels display_tabs tells apart by their prefix, and one it does not.
InformationSufficiency == "Information Sufficiency Analysis"
DraftAnswer(n) == "Draft Answer Generation " \o ToString(n)
AllQuestions == "All Questions Summary"
TabLabels == {InformationSufficiency, DraftAnswer(1), "Grant Overview"}

\* A dictionary key that is not there (reset_chat writes three keys only),
\* the absent 'thread_id' key, and Python's None.
Missing == "<missing>"
NoThread == 0
None == "<None>"

\* The phase labels of the Pitch Deck workflow (messages.py), as the
\* comparisons of chat_section spell them.
PITCH_DECK_PHASE_NAMES ==
    << "1. Business Report Generation", "2. Slide Suggestion",
       "3. Information Evaluation", "4. Draft Slide Generation" >>

\* The prompt templates of the Pitch Deck workflow (messages.py): one per
\* phase, each with the placeholder its str.format call substitutes.
PITCH_DECK_MESSAGES ==
    << [id |-> "T1", slot |-> "company_name"],
       [id |-> "T2", slot |-> ""],
       [id |-> "T3", slot |-> "selected_slides"],
       [id |-> "T4", slot |-> ""] >>

\* The prompt templates and phase labels of the Grant workflow (messages.py).
MESSAGES == << [id |-> "M1", slot |-> ""], [id |-> "M2", slot |-> ""] >>
PHASE_NAMES == << "Grant phase 1", "Grant phase 2" >>

\* What the user may type: a company name, slide numbers, free text.
CompanyNames == {"", "Acme"}
SlideNumbers == {"", "1,3"}
UserTexts == {"", "more"}

\* What the gateway may return as the newest message of the thread.
Replies == {"r1", "r2"}
ReplyTexts == Replies \cup {""}

\* The remote call of chat_with_assistant that raises, if one does.
FailStages == {"thread", "post", "run", "poll", "list"}
Outcomes == FailStages \cup ReplyTexts

\* ------------------------------------------------------------------- state

VARIABLES
    assistants,                 \* st.session_state['assistants'] (their ids)
    assistant,                  \* st.session_state['assistant'] (its id)
    assistant_chat_histories,   \* dictionary: id -> chat state
    thread_id,                  \* st.session_state['thread_id'], or NoThread
    nthreads,                   \* gateway: threads created so far
    created,                    \* gateway: threads created since the last reset
    posted_to,                  \* gateway: threads a message was posted to since then
    posted,                     \* gateway: bag of the workflow templates posted since then
    posted_by,                  \* gateway: << assistant, thread >> of the messages posted since then
    last,                       \* the handler the last script run executed, and how it ended
    call,                       \* chat_with_assistant in progress: its position and its run object
    runs,                       \* gateway: the runs created, each with its thread and status
    vector_store,               \* st.session_state['vector_store'] (its id), or NoStore
    refresh_files,              \* st.session_state['refresh_files']
    file_batches,               \* what upload_files_to_vector_store returned last
    stores,                     \* gateway: the vector stores created, each the list of its files
    remote_assistants,          \* gateway: the assistants created, each with its vector store
    disk,                       \* the required files that exist in the working directory
    modal                       \* the widgets of the modal: files, name and type entered

\* The sidebar's part of the state. The specifications of the chat leave it
\* as it starts; the specification of the sidebar below moves it.
sidebar_vars ==
    << vector_store, refresh_files, file_batches, stores, remote_assistants, disk,
       modal >>

vars == << assistants, assistant, assistant_chat_histories, thread_id, nthreads, created,
           posted_to, posted, posted_by, last, call, runs, sidebar_vars >>

\* The session and the gateway as one value, the handlers' argument.
State ==
    [ assistant |-> assistant, chats |-> assistant_chat_histories,
      thread_id |-> thread_id, nthreads |-> nthreads, created |-> created,
      posted_to |-> posted_to, posted |-> posted, posted_by |-> posted_by ]

\* Python truthiness of the values the handlers test.
Truthy(x) == x \notin {"", Missing, None}

\* ------------------------------------------------------------- chat states

\* The dictionary chat_section creates on first use of an assistant.
NewChat ==
    [ chat_history |-> << >>, conversation_history |-> << >>,
      message_index |-> 0, company_name |-> "", selected_slides |-> "" ]

\* The dictionary reset_chat stores: three keys, the auxiliary ones gone.
ResetChatValue ==
    [ chat_history |-> << >>, conversation_history |-> << >>,
      message_index |-> 0, company_name |-> Missing,
      selected_slides |-> Missing ]

\* chat_section, lines 238-248: create the selected assistant's chat state
\* when there is none.
EnsureChat(s) ==
    IF s.assistant \notin DOMAIN s.chats
    THEN [s EXCEPT !.chats = (s.assistant :> NewChat) @@ @]
    ELSE s

current_chat(s) == s.chats[s.assistant]

\* --------------------------------------------------------------- templates

\* str.format(**{kw: value}) on a template: the placeholder is replaced.
Format(template, kw, value) ==
    [id |-> template.id, arg |-> IF template.slot = kw THEN value ELSE ""]

\* A template sent as it is: its placeholder, if any, goes out literally.
Raw(template) ==
    [id |-> template.id,
     arg |-> IF template.slot = "" THEN "" ELSE "{" \o template.slot \o "}"]

\* A fixed message of a side interaction, with the user's text if it has one.
Fixed(id, text) == [id |-> id, arg |-> text]

\* Whether a message is a formatted or raw workflow template.
IsTemplate(message) ==
    \E k \in 1..Len(PITCH_DECK_MESSAGES) : message.id = PITCH_DECK_MESSAGES[k].id

\* ----------------------------------------------------------------- gateway

\* Faulty variant: a thread is created on every call, held or not.
chat_with_new_thread(s, user_message, o) ==
    LET made == o # "thread"
        tid == IF made THEN s.nthreads + 1 ELSE s.thread_id
        post == tid # NoThread /\ o \notin {"thread", "post"}
    IN  [ s |-> [s EXCEPT
                   !.thread_id = tid,
                   !.nthreads = IF made THEN tid ELSE @,
                   !.created = IF made THEN @ \cup {tid} ELSE @,
                   !.posted_to = IF post THEN @ \cup {tid} ELSE @,
                   !.posted_by = IF post THEN @ \cup {<< s.assistant, tid >>} ELSE @,
                   !.posted = IF post /\ IsTemplate(user_message)
                              THEN @ (+) SetToBag({user_message})
                              ELSE @],
          response |-> IF o \in ReplyTexts THEN o ELSE None ]

\* chat_with_assistant(assistant_id, user_message): create the thread if the
\* session holds none, post the message, create the run, poll it, list the
\* messages. o is the call that raises (caught: the result is None) or the
\* text of the newest message.
chat_with_assistant(s, user_message, o) ==
    LET create == s.thread_id = NoThread
        made == create /\ o # "thread"
        tid == IF made THEN s.nthreads + 1 ELSE s.thread_id
        post == tid # NoThread /\ o \notin {"thread", "post"}
    IN  [ s |-> [s EXCEPT
                   !.thread_id = tid,
                   !.nthreads = IF made THEN tid ELSE @,
                   !.created = IF made THEN @ \cup {tid} ELSE @,
                   !.posted_to = IF post THEN @ \cup {tid} ELSE @,
                   !.posted_by = IF post THEN @ \cup {<< s.assistant, tid >>} ELSE @,
                   !.posted = IF post /\ IsTemplate(user_message)
                              THEN @ (+) SetToBag({user_message})
                              ELSE @],
          response |-> IF o \in ReplyTexts THEN o ELSE None ]

\* The outcomes a call can have in state s: the thread creation can only
\* raise when the call makes it.
PossibleOutcomes(s) ==
    IF s.thread_id = NoThread THEN Outcomes ELSE Outcomes \ {"thread"}

\* The model's bounds on the gateway's growth, on the state a call leaves:
\* the threads created, and the templates posted beyond those answered.
GatewayRoom(s) ==
    LET index(a) == IF a \in DOMAIN s.chats THEN s.chats[a].message_index ELSE 0
    IN  /\ BagCardinality(s.posted) - (index("P") + index("G") + index("F")) <= MaxLost
        /\ s.nthreads <= MaxThreads

\* The statuses a run object reports, and those it never leaves.
RunStatuses == {"queued", "in_progress", "completed", "failed"}
TerminalStatuses == {"completed", "failed"}

\* No call of chat_with_assistant in progress. Where a script run is one
\* step, call and runs stay as they start; the stepwise specification below
\* follows a call through its remote calls and counts, per invocation, the
\* calls of messages.create, runs.create, runs.retrieve (up to MaxPolls) and
\* messages.list it issued; the counts stay readable after the return, until
\* the next invocation begins.
IdleCall ==
    [ pc |-> "idle", user_message |-> "", run |-> 0, status |-> "",
      messages_created |-> 0, runs_created |-> 0, retrieves |-> 0, listed |-> 0 ]

\* The absent vector store (None), a function that returned None, and one
\* that returned a list.
NoStore == 0
ReturnedNone == [none |-> TRUE, list |-> << >>]
ReturnedList(list) == [none |-> FALSE, list |-> list]

\* The modal's widgets before anything is entered.
EmptyModal ==
    [ uploaded_files |-> << >>, create_assistant_name |-> "",
      create_assistant_type |-> "" ]

\* The sidebar before anything was created or uploaded.
SidebarAtRest ==
    /\ vector_store = NoStore
    /\ refresh_files = FALSE
    /\ file_batches = ReturnedNone
    /\ stores = << >>
    /\ remote_assistants = {}
    /\ disk = {}
    /\ modal = EmptyModal

\* ---------------------------------------------------------------- handlers

\* What a script run leaves behind: the new session and gateway, and the
\* record of the handler that ran (op), the tab it was clicked in, whether
\* it called the gateway, and how it ended:
\*   "ok" the reply was stored, "failed" the gateway gave no reply,
\*   "warning"/"error" st.warning/st.error and nothing else,
\*   "fault" an exception left the handler, "set" a plain assignment.
Done(s, op, tab, called, result) ==
    [ s |-> s,
      last |-> [op |-> op, tab |-> tab, called |-> called, result |-> result] ]

\* Faulty variant: the entry is appended and the index is left alone.
AdvancedWithoutIncrement(cur, phase_name, response) ==
    [cur EXCEPT !.conversation_history = Append(@, << phase_name, response >>)]

\* conversation_history.append((phase_name, response)); message_index += 1
Advanced(cur, phase_name, response) ==
    [cur EXCEPT !.conversation_history = Append(@, << phase_name, response >>),
                !.message_index = @ + 1]

\* Faulty variant: the regenerated text is appended as a new entry.
ReplacedByAppending(cur, i, phase, response) ==
    [cur EXCEPT !.conversation_history = Append(@, << phase, response >>)]

\* conversation_history[i] = (phase, response)
Replaced(cur, i, phase, response) ==
    [cur EXCEPT !.conversation_history[i] = << phase, response >>]

\* Faulty variant: the index is set and nothing is appended.
SubmitCompanyNameWithoutEntry(s, company_name, o) ==
    LET a == s.assistant
        op == "Submit Company Name"
    IN  IF ~Truthy(company_name)
        THEN Done(s, op, 0, FALSE, "warning")
        ELSE
          LET s1 == [s EXCEPT !.chats[a].company_name = company_name]
              initial_message ==
                  Format(PITCH_DECK_MESSAGES[1], "company_name", company_name)
              r == chat_with_assistant(s1, initial_message, o)
          IN  IF Truthy(r.response)
              THEN Done([r.s EXCEPT !.chats[a].message_index = 1],
                        op, 0, TRUE, "ok")
              ELSE Done(r.s, op, 0, TRUE, "failed")

\* 'Submit Company Name', lines 262-276 (shown while company_name is falsy).
SubmitCompanyName(s, company_name, o) ==
    LET a == s.assistant
        op == "Submit Company Name"
    IN  IF ~Truthy(company_name)
        THEN Done(s, op, 0, FALSE, "warning")
        ELSE
          LET s1 == [s EXCEPT !.chats[a].company_name = company_name]
              initial_message ==
                  Format(PITCH_DECK_MESSAGES[1], "company_name", company_name)
              r == chat_with_assistant(s1, initial_message, o)
          IN  IF Truthy(r.response)
              THEN Done([r.s EXCEPT
                           !.chats[a].conversation_history =
                               Append(@, << PITCH_DECK_PHASE_NAMES[1], r.response >>),
                           !.chats[a].message_index = 1],
                        op, 0, TRUE, "ok")
              ELSE Done(r.s, op, 0, TRUE, "failed")

\* Faulty variant: the index moves before the reply is known.
NextPhaseCountingFirst(s, i, o) ==
    LET a == s.assistant
        cur == current_chat(s)
        op == "Next Phase"
    IN  IF cur.message_index < Len(PITCH_DECK_MESSAGES)
        THEN
          LET message == Raw(PITCH_DECK_MESSAGES[cur.message_index + 1])
              r == chat_with_assistant(s, message, o)
              moved == [r.s EXCEPT !.chats[a].message_index = @ + 1]
          IN  IF Truthy(r.response)
              THEN Done([moved EXCEPT !.chats[a].conversation_history =
                           Append(@, << PITCH_DECK_PHASE_NAMES[cur.message_index + 1],
                                        r.response >>)],
                        op, i, TRUE, "ok")
              ELSE Done(moved, op, i, TRUE, "failed")
        ELSE Done(s, op, i, FALSE, "error")

\* 'Next Phase', lines 289-300 (tab of phase 1, when it is the last entry).
NextPhase(s, i, o) ==
    LET a == s.assistant
        cur == current_chat(s)
        op == "Next Phase"
    IN  IF cur.message_index < Len(PITCH_DECK_MESSAGES)
        THEN
          LET message == Raw(PITCH_DECK_MESSAGES[cur.message_index + 1])
              r == chat_with_assistant(s, message, o)
          IN  IF Truthy(r.response)
              THEN Done([r.s EXCEPT !.chats[a] =
                           Advanced(cur, PITCH_DECK_PHASE_NAMES[cur.message_index + 1],
                                    r.response)],
                        op, i, TRUE, "ok")
              ELSE Done(r.s, op, i, TRUE, "failed")
        ELSE Done(s, op, i, FALSE, "error")

\* 'Select All Slides' and the slide-number box, lines 305-310.
SelectSlides(s, i, slides) ==
    IF Truthy(slides)
    THEN Done([s EXCEPT !.chats[s.assistant].selected_slides = slides],
              "Select Slides", i, FALSE, "set")
    ELSE Done(s, "Select Slides", i, FALSE, "set")

\* Faulty variant: past the end the last template is sent again, the way
\* 'Draft Pitchdeck Slides' clamps its phase name.
ProceedWithLastTemplate(s, i, o) ==
    LET a == s.assistant
        cur == current_chat(s)
        op == "Proceed with Selected Slides"
        k == IF cur.message_index < Len(PITCH_DECK_MESSAGES)
             THEN cur.message_index + 1
             ELSE Len(PITCH_DECK_MESSAGES)
        message == Format(PITCH_DECK_MESSAGES[k], "selected_slides",
                          cur.selected_slides)
        r == chat_with_assistant(s, message, o)
    IN  IF Truthy(r.response)
        THEN Done([r.s EXCEPT !.chats[a] =
                     Advanced(cur, PITCH_DECK_PHASE_NAMES[k], r.response)],
                  op, i, TRUE, "ok")
        ELSE Done(r.s, op, i, TRUE, "failed")

\* Faulty variant: the entry is labelled with the phase after the tab the
\* button sits in, whatever message_index is.
ProceedLabelledByTab(s, i, o) ==
    LET a == s.assistant
        cur == current_chat(s)
        op == "Proceed with Selected Slides"
    IN  IF cur.message_index >= Len(PITCH_DECK_MESSAGES)
        THEN Done(s, op, i, FALSE, "fault")
        ELSE
          LET template == PITCH_DECK_MESSAGES[cur.message_index + 1]
              message == Format(template, "selected_slides", cur.selected_slides)
              r == chat_with_assistant(s, message, o)
          IN  IF Truthy(r.response)
              THEN Done([r.s EXCEPT !.chats[a] =
                           Advanced(cur, PITCH_DECK_PHASE_NAMES[i + 1], r.response)],
                        op, i, TRUE, "ok")
              ELSE Done(r.s, op, i, TRUE, "failed")

\* 'Proceed with Selected Slides', lines 325-334 (tab of phase 2, shown while
\* selected_slides is truthy). messages[message_index] is not range-checked:
\* past the end it raises IndexError before anything is sent.
ProceedWithSelectedSlides(s, i, o) ==
    LET a == s.assistant
        cur == current_chat(s)
        op == "Proceed with Selected Slides"
    IN  IF cur.message_index >= Len(PITCH_DECK_MESSAGES)
        THEN Done(s, op, i, FALSE, "fault")
        ELSE
          LET template == PITCH_DECK_MESSAGES[cur.message_index + 1]
          IN  IF template.slot \notin {"", "selected_slides"}
              THEN Done(s, op, i, FALSE, "fault")
              ELSE
                LET message == Format(template, "selected_slides", cur.selected_slides)
                    r == chat_with_assistant(s, message, o)
                IN  IF Truthy(r.response)
                    THEN Done([r.s EXCEPT !.chats[a] =
                                 Advanced(cur, PITCH_DECK_PHASE_NAMES[cur.message_index + 1],
                                          r.response)],
                              op, i, TRUE, "ok")
                    ELSE Done(r.s, op, i, TRUE, "failed")

\* min(message_index, len(phase_names) - 1), as a 1-based index.
ClampedPhase(message_index) ==
    IF message_index < Len(PITCH_DECK_PHASE_NAMES) - 1
    THEN message_index + 1
    ELSE Len(PITCH_DECK_PHASE_NAMES)

\* 'Draft Pitchdeck Slides', lines 361-374 (tab of phase 3).
DraftPitchdeckSlides(s, i, o) ==
    LET a == s.assistant
        cur == current_chat(s)
        op == "Draft Pitchdeck Slides"
    IN  IF cur.message_index < Len(PITCH_DECK_MESSAGES)
        THEN
          LET message == Raw(PITCH_DECK_MESSAGES[cur.message_index + 1])
              r == chat_with_assistant(s, message, o)
          IN  IF Truthy(r.response)
              THEN Done([r.s EXCEPT !.chats[a] =
                           Advanced(cur,
                                    PITCH_DECK_PHASE_NAMES[ClampedPhase(cur.message_index)],
                                    r.response)],
                        op, i, TRUE, "ok")
              ELSE Done(r.s, op, i, TRUE, "failed")
        ELSE Done(s, op, i, FALSE, "error")

\* The side interactions of chat_section that regenerate one phase: the
\* button, the tab's phase, the message id and whether the user's text is
\* required and sent along.
ReplaceButtons ==
    { [op |-> "Submit Additional Slides", phase |-> 2, needs_text |-> TRUE],
      [op |-> "I have uploaded additional information", phase |-> 3,
       needs_text |-> FALSE],
      [op |-> "Submit Answers", phase |-> 3, needs_text |-> TRUE],
      [op |-> "Submit Additional Information", phase |-> 4, needs_text |-> TRUE],
      [op |-> "Analyze New Files and Regenerate Pitch Deck", phase |-> 4,
       needs_text |-> FALSE] }

\* Faulty variant: what the call returned is stored over entry i, None too.
ReplacePhaseStoringAnything(s, b, i, text, o) ==
    LET a == s.assistant
        cur == current_chat(s)
        phase == cur.conversation_history[i][1]
    IN  IF b.needs_text /\ ~Truthy(text)
        THEN Done(s, b.op, i, FALSE, "warning")
        ELSE
          LET message == Fixed(b.op, IF b.needs_text THEN text ELSE "")
              r == chat_with_assistant(s, message, o)
          IN  Done([r.s EXCEPT !.chats[a] = Replaced(cur, i, phase, r.response)],
                   b.op, i, TRUE, IF Truthy(r.response) THEN "ok" ELSE "failed")

\* Lines 314-323, 339-345, 349-358, 380-389, 393-399: send the message and,
\* on a reply, store it over entry i.
ReplacePhase(s, b, i, text, o) ==
    LET a == s.assistant
        cur == current_chat(s)
        phase == cur.conversation_history[i][1]
    IN  IF b.needs_text /\ ~Truthy(text)
        THEN Done(s, b.op, i, FALSE, "warning")
        ELSE
          LET message == Fixed(b.op, IF b.needs_text THEN text ELSE "")
              r == chat_with_assistant(s, message, o)
          IN  IF Truthy(r.response)
              THEN Done([r.s EXCEPT !.chats[a] = Replaced(cur, i, phase, r.response)],
                        b.op, i, TRUE, "ok")
              ELSE Done(r.s, b.op, i, TRUE, "failed")

\* Faulty variant: the chat state is wiped and the thread handle is kept.
reset_chat_keeping_thread(s) ==
    IF s.assistant \in DOMAIN s.chats
    THEN [s EXCEPT !.chats[s.assistant] = ResetChatValue]
    ELSE s

\* reset_chat, lines 439-451, and the chat_section run that follows it.
reset_chat(s) ==
    LET s1 == IF s.assistant \in DOMAIN s.chats
              THEN [s EXCEPT !.chats[s.assistant] = ResetChatValue]
              ELSE s
    IN  [s1 EXCEPT !.thread_id = NoThread, !.created = {}, !.posted_to = {},
                   !.posted = EmptyBag, !.posted_by = {}]

\* main, lines 605-614: the sidebar's choice becomes the session's
\* assistant; chat_section then creates its chat state if there is none.
SelectAssistant(s, a) == EnsureChat([s EXCEPT !.assistant = a])

\* ------------------------------------------------------------ display_tabs

\* phase_name.startswith("Information Sufficiency Analysis")
IsSufficiencyLabel(phase_name) == phase_name = InformationSufficiency

\* phase_name.startswith("Draft Answer Generation")
IsDraftLabel(phase_name) ==
    \E n \in 1..(MaxTabs + 2) : phase_name = DraftAnswer(n)

\* len([p for p in conversation_history if p[0].startswith("Draft Answer Generation")])
DraftCount(conversation_history) ==
    Cardinality({j \in 1..Len(conversation_history) :
                    IsDraftLabel(conversation_history[j][1])})

\* The widgets of display_tabs that regenerate the entry of their tab.
TabReplaceButtons ==
    { [op |-> "Analyze Additional Files", draft |-> FALSE, needs_text |-> FALSE],
      [op |-> "Send", draft |-> TRUE, needs_text |-> TRUE] }

\* 'Analyze Additional Files', lines 183-189, and 'Send', lines 197-207.
TabReplace(s, b, i, text, o) ==
    LET a == s.assistant
        cur == current_chat(s)
        phase_name == cur.conversation_history[i][1]
    IN  IF b.needs_text /\ ~Truthy(text)
        THEN Done(s, b.op, i, FALSE, "warning")
        ELSE
          LET message == Fixed(b.op, IF b.needs_text THEN text ELSE "")
              r == chat_with_assistant(s, message, o)
          IN  IF Truthy(r.response)
              THEN Done([r.s EXCEPT !.chats[a] =
                           Replaced(cur, i, phase_name, r.response)],
                        b.op, i, TRUE, "ok")
              ELSE Done(r.s, b.op, i, TRUE, "failed")

\* Faulty variant: a side branch that also consumes a workflow step.
AppendedAsAdvance(cur, new_phase_name, response) ==
    [cur EXCEPT !.conversation_history = Append(@, << new_phase_name, response >>),
                !.message_index = @ + 1]

\* conversation_history.append((new_phase_name, response))
Appended(cur, new_phase_name, response) ==
    [cur EXCEPT !.conversation_history = Append(@, << new_phase_name, response >>)]

\* 'Next Question', lines 210-218.
NextQuestion(s, i, o) ==
    LET a == s.assistant
        cur == current_chat(s)
        r == chat_with_assistant(s, Fixed("Next question please", ""), o)
    IN  IF Truthy(r.response)
        THEN LET new_draft_answer_count == DraftCount(cur.conversation_history) + 1
                 new_phase_name == DraftAnswer(new_draft_answer_count)
             IN  Done([r.s EXCEPT !.chats[a] =
                         Appended(cur, new_phase_name, r.response)],
                      "Next Question", i, TRUE, "ok")
        ELSE Done(r.s, "Next Question", i, TRUE, "failed")

\* 'Show me all the questions', lines 220-227.
ShowAllQuestions(s, i, o) ==
    LET a == s.assistant
        cur == current_chat(s)
        r == chat_with_assistant(s, Fixed("Show me all the questions", ""), o)
    IN  IF Truthy(r.response)
        THEN Done([r.s EXCEPT !.chats[a] = Appended(cur, AllQuestions, r.response)],
                  "Show me all the questions", i, TRUE, "ok")
        ELSE Done(r.s, "Show me all the questions", i, TRUE, "failed")

\* ------------------------------------------------------------ script runs

\* A script run's result becomes the next state.
Apply(r) ==
    /\ assistants' = assistants
    /\ assistant' = r.s.assistant
    /\ assistant_chat_histories' = r.s.chats
    /\ thread_id' = r.s.thread_id
    /\ nthreads' = r.s.nthreads
    /\ created' = r.s.created
    /\ posted_to' = r.s.posted_to
    /\ posted' = r.s.posted
    /\ posted_by' = r.s.posted_by
    /\ last' = r.last
    /\ UNCHANGED << call, runs, sidebar_vars >>

\* A run that calls the gateway needs room within the model's bounds.
Within(r) == r.last.called => GatewayRoom(r.s)

\* The outcomes to choose from in a run: none when it makes no call.
CallOutcomes(s, calls) == IF calls THEN PossibleOutcomes(s) ELSE {None}

\* The texts to choose from for a widget: none when it has no text box.
TextsFor(needs_text) == IF needs_text THEN UserTexts ELSE {""}

IsPitchDeck(s) == AssistantType(s.assistant) = "Pitch Deck Creator"

\* Lines 260-277: the workflow's tabs are rendered only once company_name is
\* truthy; before that the run ends after the company-name form.
CompanyFormShown(s) ==
    IsPitchDeck(s) /\ ~Truthy(current_chat(s).company_name)

\* Lines 280-287: entry i of conversation_history is rendered in tab i of
\* st.tabs(phase_names[:message_index + 1]) and carries the widgets of
\* phase k when its label is that phase's name.
TabShown(s, i, k) ==
    /\ IsPitchDeck(s)
    /\ Truthy(current_chat(s).company_name)
    /\ i \in 1..Len(current_chat(s).conversation_history)
    /\ i <= current_chat(s).message_index + 1
    /\ i <= Len(PITCH_DECK_PHASE_NAMES)
    /\ current_chat(s).conversation_history[i][1] = PITCH_DECK_PHASE_NAMES[k]

\* Lines 287-289, 302, 325-327, 336, 361, 376: where each widget is rendered.
NextPhaseShown(s, i) ==
    TabShown(s, i, 1) /\ i = Len(current_chat(s).conversation_history)

SelectSlidesShown(s, i) == TabShown(s, i, 2)

\* Faulty variant: the button is rendered whether slides are chosen or not.
ProceedShownWithoutSlides(s, i) == TabShown(s, i, 2)

\* Line 325: if current_chat.get('selected_slides').
ProceedShown(s, i) ==
    TabShown(s, i, 2) /\ Truthy(current_chat(s).selected_slides)

DraftShown(s, i) == TabShown(s, i, 3)

ReplaceShown(s, b, i) == TabShown(s, i, b.phase)

\* The tabs a widget may sit in, and the slide choices of the two widgets
\* of lines 305-310.
Tabs == 1..Len(PITCH_DECK_PHASE_NAMES)
SlideChoices == {"All slides"} \cup SlideNumbers

Init ==
    /\ assistants = {"P"}
    /\ assistant = "P"
    /\ assistant_chat_histories = (assistant :> NewChat)
    /\ thread_id = NoThread
    /\ nthreads = 0
    /\ created = {}
    /\ posted_to = {}
    /\ posted = EmptyBag
    /\ posted_by = {}
    /\ last = [op |-> "start", tab |-> 0, called |-> FALSE, result |-> "set"]
    /\ call = IdleCall
    /\ runs = << >>
    /\ SidebarAtRest

DoSubmitCompanyName ==
    /\ CompanyFormShown(State)
    /\ \E company_name \in CompanyNames :
         \E o \in CallOutcomes(State, Truthy(company_name)) :
           LET r == SubmitCompanyName(State, company_name, o)
           IN  Within(r) /\ Apply(r)

DoNextPhase ==
    \E i \in Tabs :
      /\ NextPhaseShown(State, i)
      /\ \E o \in PossibleOutcomes(State) :
           LET r == NextPhase(State, i, o)
           IN  Within(r) /\ Apply(r)

DoSelectSlides ==
    \E i \in Tabs, slides \in SlideChoices :
      /\ SelectSlidesShown(State, i)
      /\ Apply(SelectSlides(State, i, slides))

DoProceedWithSelectedSlides ==
    \E i \in Tabs :
      /\ ProceedShown(State, i)
      /\ \E o \in PossibleOutcomes(State) :
           LET r == ProceedWithSelectedSlides(State, i, o)
           IN  Within(r) /\ Apply(r)

DoDraftPitchdeckSlides ==
    \E i \in Tabs :
      /\ DraftShown(State, i)
      /\ \E o \in PossibleOutcomes(State) :
           LET r == DraftPitchdeckSlides(State, i, o)
           IN  Within(r) /\ Apply(r)

DoReplacePhase ==
    \E b \in ReplaceButtons, i \in Tabs :
      /\ ReplaceShown(State, b, i)
      /\ \E text \in TextsFor(b.needs_text) :
           \E o \in CallOutcomes(State, ~b.needs_text \/ Truthy(text)) :
             LET r == ReplacePhase(State, b, i, text, o)
             IN  Within(r) /\ Apply(r)

DoResetChat ==
    Apply(Done(reset_chat(State), "Reset Conversation", 0, FALSE, "set"))

DoSelectAssistant ==
    \E a \in assistants :
      Apply(Done(SelectAssistant(State, a), "Choose an assistant", 0, FALSE, "set"))

Next ==
    \/ DoSubmitCompanyName
    \/ DoNextPhase
    \/ DoSelectSlides
    \/ DoProceedWithSelectedSlides
    \/ DoDraftPitchdeckSlides
    \/ DoReplacePhase
    \/ DoResetChat
    \/ DoSelectAssistant

Spec == Init /\ [][Next]_vars

\* --------------------------------------------- display_tabs as a component

\* display_tabs(conversation_history) has no caller in main.py. It is driven
\* here on the list of the selected assistant's chat state, for every list of
\* up to MaxTabs entries over TabLabels, with message_index the length the
\* sequencer pairs with such a list.
TabHistories ==
    UNION { [1..n -> {<< l, c >> : l \in TabLabels, c \in Replies}] : n \in 1..MaxTabs }

InitTabs ==
    /\ assistants = {"G"}
    /\ assistant = "G"
    /\ \E h \in TabHistories :
         assistant_chat_histories =
             ("G" :> [NewChat EXCEPT !.conversation_history = h,
                                     !.message_index = Len(h)])
    /\ thread_id = NoThread
    /\ nthreads = 0
    /\ created = {}
    /\ posted_to = {}
    /\ posted = EmptyBag
    /\ posted_by = {}
    /\ last = [op |-> "start", tab |-> 0, called |-> FALSE, result |-> "set"]
    /\ call = IdleCall
    /\ runs = << >>
    /\ SidebarAtRest

\* Line 173, 177-181, 191: entry i is rendered in tab i.
DisplayTab(s, i) ==
    /\ AssistantType(s.assistant) = "Grant Assistant"
    /\ i \in 1..Len(current_chat(s).conversation_history)

\* A Python list has no bound; the model stops appending one entry past
\* the longest list it starts from.
RoomToAppend(r) ==
    Len(current_chat(r.s).conversation_history) <= MaxTabs + 1

DoTabReplace ==
    \E b \in TabReplaceButtons, i \in 1..(MaxTabs + 1) :
      /\ DisplayTab(State, i)
      /\ IF b.draft
         THEN IsDraftLabel(current_chat(State).conversation_history[i][1])
         ELSE IsSufficiencyLabel(current_chat(State).conversation_history[i][1])
      /\ \E text \in TextsFor(b.needs_text) :
           \E o \in CallOutcomes(State, ~b.needs_text \/ Truthy(text)) :
             LET r == TabReplace(State, b, i, text, o)
             IN  Within(r) /\ Apply(r)

DoNextQuestion ==
    \E i \in 1..(MaxTabs + 1) :
      /\ DisplayTab(State, i)
      /\ IsDraftLabel(current_chat(State).conversation_history[i][1])
      /\ \E o \in PossibleOutcomes(State) :
           LET r == NextQuestion(State, i, o)
           IN  Within(r) /\ RoomToAppend(r) /\ Apply(r)

DoShowAllQuestions ==
    \E i \in 1..(MaxTabs + 1) :
      /\ DisplayTab(State, i)
      /\ IsDraftLabel(current_chat(State).conversation_history[i][1])
      /\ \E o \in PossibleOutcomes(State) :
           LET r == ShowAllQuestions(State, i, o)
           IN  Within(r) /\ RoomToAppend(r) /\ Apply(r)

NextTabs ==
    \/ DoTabReplace
    \/ DoNextQuestion
    \/ DoShowAllQuestions
    \/ DoResetChat
    \/ DoSelectAssistant

SpecTabs == InitTabs /\ [][NextTabs]_vars

\* The sequencer of chat_section and the component display_tabs together:
\* every handler of the two, each from the states it is driven from.
InitAll == Init \/ InitTabs

NextAll == Next \/ NextTabs

SpecAll == InitAll /\ [][NextAll]_vars

\* ------------------------------------------------------------- two agents

\* Lines 404-421, as one script run: the free chat of an assistant whose type
\* is neither workflow. st.chat_input gives a non-empty text or nothing.
FreeChat(s, user_message, o) ==
    LET a == s.assistant
        op == "Enter your message"
        s1 == [s EXCEPT !.chats[a].chat_history =
                  Append(@, [role |-> "user", content |-> user_message])]
        r == chat_with_assistant(s1, Fixed("chat", user_message), o)
    IN  IF Truthy(r.response)
        THEN Done([r.s EXCEPT !.chats[a].chat_history =
                     Append(@, [role |-> "assistant", content |-> r.response])],
                  op, 0, TRUE, "ok")
        ELSE Done(r.s, op, 0, TRUE, "failed")

FreeChatShown(s) ==
    AssistantType(s.assistant) \notin {"Grant Assistant", "Pitch Deck Creator"}

DoFreeChat ==
    /\ FreeChatShown(State)
    /\ Len(current_chat(State).chat_history) < MaxChat
    /\ \E user_message \in UserTexts \ {""}, o \in PossibleOutcomes(State) :
         LET r == FreeChat(State, user_message, o)
         IN  Within(r) /\ Apply(r)

\* A session holding a Pitch Deck assistant and a free-chat assistant.
InitTwo ==
    /\ assistants = {"P", "F"}
    /\ assistant = "P"
    /\ assistant_chat_histories = ("P" :> NewChat)
    /\ thread_id = NoThread
    /\ nthreads = 0
    /\ created = {}
    /\ posted_to = {}
    /\ posted = EmptyBag
    /\ posted_by = {}
    /\ last = [op |-> "start", tab |-> 0, called |-> FALSE, result |-> "set"]
    /\ call = IdleCall
    /\ runs = << >>
    /\ SidebarAtRest

\* The two assistants side by side: the first two phases of the workflow of
\* one (advance, replace_phase), the free chat of the other, reset and
\* selection.
NextTwo ==
    \/ DoSubmitCompanyName
    \/ DoNextPhase
    \/ DoReplacePhase
    \/ DoFreeChat
    \/ DoResetChat
    \/ DoSelectAssistant

SpecTwo == InitTwo /\ [][NextTwo]_vars

\* ------------------------------------------------------ a reliable gateway

\* Lines 250-257: the workflow of the selected assistant's type.
Workflow(a) ==
    IF AssistantType(a) = "Grant Assistant" THEN MESSAGES
    ELSE IF AssistantType(a) = "Pitch Deck Creator" THEN PITCH_DECK_MESSAGES
    ELSE << >>

\* Some widget whose handler advances the workflow is rendered.
AdvanceShown(s) ==
    \/ CompanyFormShown(s)
    \/ \E i \in Tabs :
         NextPhaseShown(s, i) \/ ProceedShown(s, i) \/ DraftShown(s, i)

\* A session holding one assistant of each workflow kind.
InitReliable ==
    /\ assistants = {"P", "G"}
    /\ assistant = "P"
    /\ assistant_chat_histories = ("P" :> NewChat)
    /\ thread_id = NoThread
    /\ nthreads = 0
    /\ created = {}
    /\ posted_to = {}
    /\ posted = EmptyBag
    /\ posted_by = {}
    /\ last = [op |-> "start", tab |-> 0, called |-> FALSE, result |-> "set"]
    /\ call = IdleCall
    /\ runs = << >>
    /\ SidebarAtRest

\* The script runs of chat_section in which no call of the gateway fails.
NextReliable == Next /\ last'.result # "failed"

SpecReliable == InitReliable /\ [][NextReliable]_vars

\* ------------------------------------------- chat_with_assistant, stepwise

\* The free chat of chat_section (lines 404-421, an assistant of a type
\* other than the two workflows) calling chat_with_assistant, followed one
\* remote call at a time while the gateway works on its runs.

\* Lines 410-418: the user's message is stored and the call begins. The
\* model begins a call only with room for the thread and the run it makes.
BeginFreeChat ==
    /\ call.pc = "idle"
    /\ AssistantType(assistant) \notin {"Grant Assistant", "Pitch Deck Creator"}
    /\ Len(assistant_chat_histories[assistant].chat_history) < MaxChat
    /\ Len(runs) < MaxRuns
    /\ thread_id = NoThread => nthreads < MaxThreads
    /\ \E user_message \in UserTexts \ {""} :
         /\ assistant_chat_histories' =
              [assistant_chat_histories EXCEPT ![assistant].chat_history =
                  Append(@, [role |-> "user", content |-> user_message])]
         /\ call' = [IdleCall EXCEPT
                       !.pc = IF thread_id = NoThread THEN "thread" ELSE "post",
                       !.user_message = user_message]
    /\ last' = [op |-> "Enter your message", tab |-> 0, called |-> TRUE,
                result |-> "running"]
    /\ UNCHANGED << assistants, assistant, thread_id, nthreads, created, posted_to,
                    posted, posted_by, runs,
                    sidebar_vars >>

\* chat_with_assistant returns and lines 419-421 store a truthy response;
\* listed tells whether the step that returned issued messages.list.
Returned(response, listed) ==
    /\ call' = [call EXCEPT !.pc = "idle", !.listed = @ + listed]
    /\ assistant_chat_histories' =
         IF Truthy(response)
         THEN [assistant_chat_histories EXCEPT ![assistant].chat_history =
                  Append(@, [role |-> "assistant", content |-> response])]
         ELSE assistant_chat_histories
    /\ last' = [last EXCEPT !.result = IF Truthy(response) THEN "ok" ELSE "failed"]

\* Lines 120-122: client.beta.threads.create().
ThreadsCreate ==
    /\ call.pc = "thread"
    /\ nthreads' = nthreads + 1
    /\ thread_id' = nthreads'
    /\ created' = created \cup {thread_id'}
    /\ call' = [call EXCEPT !.pc = "post"]
    /\ UNCHANGED << assistants, assistant, assistant_chat_histories, posted_to,
                    posted, posted_by, last, runs,
                    sidebar_vars >>

\* Lines 124-128: client.beta.threads.messages.create(...).
MessagesCreate ==
    /\ call.pc = "post"
    /\ posted_to' = posted_to \cup {thread_id}
    /\ posted_by' = posted_by \cup {<< assistant, thread_id >>}
    /\ call' = [call EXCEPT !.pc = "run", !.messages_created = @ + 1]
    /\ UNCHANGED << assistants, assistant, assistant_chat_histories, thread_id,
                    nthreads, created, posted, last, runs,
                    sidebar_vars >>

\* Lines 129-132: run = client.beta.threads.runs.create(...).
RunsCreate ==
    /\ call.pc = "run"
    /\ runs' = Append(runs, [thread |-> thread_id, status |-> "queued"])
    /\ call' = [call EXCEPT !.pc = "poll", !.run = Len(runs'), !.status = "queued",
                             !.runs_created = @ + 1]
    /\ UNCHANGED << assistants, assistant, assistant_chat_histories, thread_id,
                    nthreads, created, posted_to, posted, posted_by, last,
                    sidebar_vars >>

\* Lines 135-136: while run.status != "completed": run = ...runs.retrieve(...).
RunsRetrieve ==
    /\ call.pc = "poll"
    /\ call.status # "completed"
    /\ call' = [call EXCEPT !.status = runs[call.run].status,
                             !.retrieves = IF @ < MaxPolls THEN @ + 1 ELSE @]
    /\ UNCHANGED << assistants, assistant, assistant_chat_histories, thread_id,
                    nthreads, created, posted_to, posted, posted_by, last, runs,
                    sidebar_vars >>

\* Lines 139-140: the loop is left, messages.list(...) gives the newest text.
MessagesList ==
    /\ call.pc = "poll"
    /\ call.status = "completed"
    /\ \E text \in ReplyTexts : Returned(text, 1)
    /\ UNCHANGED << assistants, assistant, thread_id, nthreads, created, posted_to,
                    posted, posted_by, runs,
                    sidebar_vars >>

\* A function that answers a fault of runs.create by posting the message
\* again.
RaisesAndRetries ==
    /\ call.pc \in {"thread", "post", "run", "poll"}
    /\ IF call.pc = "run"
       THEN /\ call' = [call EXCEPT !.pc = "post"]
            /\ UNCHANGED << assistant_chat_histories, last >>
       ELSE Returned(None, IF call.pc = "poll" /\ call.status = "completed" THEN 1 ELSE 0)
    /\ UNCHANGED << assistants, assistant, thread_id, nthreads, created, posted_to,
                    posted, posted_by, runs,
                    sidebar_vars >>

\* Lines 141-144: the remote call the function is at raises; None is
\* returned. Past the loop the call that raises is messages.list.
Raises ==
    /\ call.pc \in {"thread", "post", "run"}
       \/ (call.pc = "poll" /\ call.status # "completed")
       \/ (call.pc = "poll" /\ call.status = "completed")
    /\ Returned(None, IF call.pc = "poll" /\ call.status = "completed" THEN 1 ELSE 0)
    /\ UNCHANGED << assistants, assistant, thread_id, nthreads, created, posted_to,
                    posted, posted_by, runs,
                    sidebar_vars >>

\* The gateway works on run r: queued, in progress, then completed or failed.
GatewayRun(r) ==
    /\ r \in 1..Len(runs)
    /\ \E status \in RunStatuses :
         /\ \/ runs[r].status = "queued" /\ status = "in_progress"
            \/ runs[r].status = "in_progress" /\ status \in TerminalStatuses
         /\ runs' = [runs EXCEPT ![r].status = status]
    /\ UNCHANGED << assistants, assistant, assistant_chat_histories, thread_id,
                    nthreads, created, posted_to, posted, posted_by, last, call,
                    sidebar_vars >>

GatewayRuns == \E r \in 1..MaxRuns : GatewayRun(r)

\* 'Reset Conversation' between two calls.
ResetBetweenCalls == call.pc = "idle" /\ DoResetChat

InitCalls ==
    /\ assistants = {"F"}
    /\ assistant = "F"
    /\ assistant_chat_histories = ("F" :> NewChat)
    /\ thread_id = NoThread
    /\ nthreads = 0
    /\ created = {}
    /\ posted_to = {}
    /\ posted = EmptyBag
    /\ posted_by = {}
    /\ last = [op |-> "start", tab |-> 0, called |-> FALSE, result |-> "set"]
    /\ call = IdleCall
    /\ runs = << >>
    /\ SidebarAtRest

NextCalls ==
    \/ BeginFreeChat
    \/ ThreadsCreate
    \/ MessagesCreate
    \/ RunsCreate
    \/ RunsRetrieve
    \/ MessagesList
    \/ Raises
    \/ GatewayRuns
    \/ ResetBetweenCalls

SpecCalls == InitCalls /\ [][NextCalls]_vars

\* The program takes its next step unless a remote call raises, and the
\* gateway brings every run to a terminal status.
FairSpecCalls ==
    /\ SpecCalls
    /\ WF_vars(ThreadsCreate)
    /\ WF_vars(MessagesCreate)
    /\ WF_vars(RunsCreate)
    /\ WF_vars(RunsRetrieve)
    /\ WF_vars(MessagesList)
    /\ \A r \in 1..MaxRuns : WF_vars(GatewayRun(r))

\* ------------------------------------------------------------- the sidebar

\* The required files of the two workflow kinds, each a path below the
\* working directory.
GRANT_ASSISTANT_REQUIRED_FILES ==
    << [dir |-> "required_files", name |-> "COMPLETED IN PHASE 1 - SOLINTEGRA AS.pdf"],
       [dir |-> "required_files", name |-> "COMPLETED IN PHASE 1 - ERKE TEKNOLOGI AS.pdf"] >>

PITCH_DECK_CREATOR_REQUIRED_FILES ==
    << [dir |-> "required_files", name |-> "Pitchdeck Questions.pdf"],
       [dir |-> "required_files", name |-> "The Overall Pitch Deck Guide.pdf"],
       [dir |-> "required_files", name |-> "VB AI pitchdeck.pdf"] >>

\* os.path.basename(full_path)
basename(path) == path.name

\* Lines 524-528: required_files by assistant_type.
RequiredFiles(assistant_type) ==
    IF assistant_type = "Grant Assistant" THEN GRANT_ASSISTANT_REQUIRED_FILES
    ELSE IF assistant_type = "Pitch Deck Creator" THEN PITCH_DECK_CREATOR_REQUIRED_FILES
    ELSE << >>

AllRequiredFiles ==
    {GRANT_ASSISTANT_REQUIRED_FILES[i] : i \in 1..Len(GRANT_ASSISTANT_REQUIRED_FILES)}
    \cup {PITCH_DECK_CREATOR_REQUIRED_FILES[i] :
            i \in 1..Len(PITCH_DECK_CREATOR_REQUIRED_FILES)}

\* The keys of get_assistant_instructions(""), the assistant a type stands
\* for in the model, and what the user may enter in the modal.
AssistantTypes == {AssistantType(a) : a \in Agents}
AgentOfType(assistant_type) == CHOOSE a \in Agents : AssistantType(a) = assistant_type
AssistantNames == {"", "Acme"}
UploadedFiles == { << >>, << "notes.txt" >> }

\* The upload of a batch that raises, if one does (0: none), for the longest
\* batch the modal can put together.
UploadFailures == 0..(Len(PITCH_DECK_CREATOR_REQUIRED_FILES) + 1)

\* The session and the gateway as the sidebar's handlers see them.
Sidebar ==
    [ assistants |-> assistants, assistant |-> assistant,
      vector_store |-> vector_store, refresh_files |-> refresh_files,
      file_batches |-> file_batches, stores |-> stores,
      remote_assistants |-> remote_assistants ]

\* Truthiness of a returned list: not None and not empty.
ListTruthy(returned) == ~returned.none /\ returned.list # << >>

\* create_vector_store(name), lines 54-63.
create_vector_store(m, name, ok) ==
    IF ok
    THEN [m |-> [m EXCEPT !.stores = Append(@, << >>)],
          vector_store |-> Len(m.stores) + 1]
    ELSE [m |-> m, vector_store |-> NoStore]

\* Faulty variant: what was attached before the failure is handed back.
upload_files_returning_partial(m, vector_store_id, files, fail) ==
    LET n == IF fail \in 1..Len(files) THEN fail - 1 ELSE Len(files)
        uploaded_files == SubSeq(files, 1, n)
    IN  [m |-> [m EXCEPT !.stores[vector_store_id] = @ \o uploaded_files],
         returned |-> ReturnedList(uploaded_files)]

\* Faulty variant: the upload that raises is skipped and the loop goes on.
upload_files_skipping_failed(m, vector_store_id, files, fail) ==
    LET uploaded_files ==
            SelectSeq([i \in 1..Len(files) |-> [at |-> i, name |-> files[i]]],
                      LAMBDA f : f.at # fail)
        names == [i \in 1..Len(uploaded_files) |-> uploaded_files[i].name]
    IN  [m |-> [m EXCEPT !.stores[vector_store_id] = @ \o names],
         returned |-> IF Len(names) < Len(files) THEN ReturnedNone
                      ELSE ReturnedList(names)]

\* upload_files_to_vector_store(vector_store_id, files), lines 65-92: one
\* upload_and_poll per file, in list order; the first that raises ends the
\* loop in the except clause, which returns None.
upload_files_to_vector_store(m, vector_store_id, files, fail) ==
    LET n == IF fail \in 1..Len(files) THEN fail - 1 ELSE Len(files)
        uploaded_files == SubSeq(files, 1, n)
    IN  [m |-> [m EXCEPT !.stores[vector_store_id] = @ \o uploaded_files],
         returned |-> IF n < Len(files) THEN ReturnedNone
                      ELSE ReturnedList(uploaded_files)]

\* create_assistant(name, assistant_type, vector_store_id), lines 94-115.
\* o is the remote call that raises ("create", "update") or "ok".
create_assistant(m, name, assistant_type, vector_store_id, o) ==
    LET id == AgentOfType(assistant_type)
    IN  IF o = "create"
        THEN [m |-> m, assistant |-> None]
        ELSE IF o = "update"
        THEN [m |-> [m EXCEPT !.remote_assistants =
                        @ \cup {[id |-> id, vector_store |-> NoStore]}],
              assistant |-> None]
        ELSE [m |-> [m EXCEPT !.remote_assistants =
                        @ \cup {[id |-> id, vector_store |-> vector_store_id]},
                     !.assistants = @ \cup {id}],
              assistant |-> id]

\* Faulty variant: the upload starts before the required files are checked.
create_assistant_popup_uploading_first(m, d, uploaded_files, assistant_name, assistant_type, o) ==
    LET op == "Create Assistant"
        vs == create_vector_store(m, assistant_name, o.store)
        m1 == [vs.m EXCEPT !.vector_store = vs.vector_store]
        required_files == RequiredFiles(assistant_type)
        found == SelectSeq(required_files, LAMBDA f : f \in d)
        files_to_upload ==
            uploaded_files \o [i \in 1..Len(found) |-> basename(found[i])]
    IN  IF vs.vector_store = NoStore
        THEN Done(vs.m, op, 0, TRUE, "error")
        ELSE
          LET up == upload_files_to_vector_store(m1, vs.vector_store,
                                                 files_to_upload, o.fail)
          IN  Done([up.m EXCEPT !.file_batches = up.returned], op, 0, TRUE, "error")

\* 'Create Assistant', lines 509-573. d is the set of required files on disk.
create_assistant_popup(m, d, uploaded_files, assistant_name, assistant_type, o) ==
    LET op == "Create Assistant"
    IN  IF ~(Truthy(assistant_name) /\ Truthy(assistant_type))
        THEN Done(m, op, 0, FALSE, "warning")
        ELSE
          LET vs == create_vector_store(m, assistant_name, o.store)
              m1 == [vs.m EXCEPT !.vector_store = vs.vector_store]
              required_files == RequiredFiles(assistant_type)
              found == SelectSeq(required_files, LAMBDA f : f \in d)
              files_to_upload ==
                  uploaded_files \o [i \in 1..Len(found) |-> basename(found[i])]
              required_files_found == Len(found) = Len(required_files)
          IN  IF vs.vector_store = NoStore
              THEN Done(vs.m, op, 0, TRUE, "error")
              ELSE IF ~required_files_found
              THEN Done(m1, op, 0, TRUE, "error")
              ELSE IF files_to_upload = << >>
              THEN Done(m1, op, 0, TRUE, "error")
              ELSE
                LET up == upload_files_to_vector_store(m1, vs.vector_store,
                                                       files_to_upload, o.fail)
                    m2 == [up.m EXCEPT !.file_batches = up.returned]
                IN  IF ~ListTruthy(up.returned)
                    THEN Done(m2, op, 0, TRUE, "error")
                    ELSE
                      LET ca == create_assistant(m2, assistant_name, assistant_type,
                                                 vs.vector_store, o.assistant)
                      IN  IF ca.assistant = None
                          THEN Done(ca.m, op, 0, TRUE, "failed")
                          ELSE Done([ca.m EXCEPT !.assistant = ca.assistant],
                                    op, 0, TRUE, "ok")

\* get_assistant_vector_store_id(assistant), lines 579-585.
get_assistant_vector_store_id(m, a) ==
    LET r == CHOOSE r \in m.remote_assistants :
                 r.id = a /\ r.vector_store # NoStore
    IN  r.vector_store

\* main, lines 605-620: the choice becomes the session's assistant, then
\* client.beta.vector_stores.retrieve is called outside any try: when it
\* raises, the exception leaves main and the run ends there.
ChooseAssistant(m, a, ok) ==
    LET m1 == [m EXCEPT !.assistant = a]
    IN  IF ok
        THEN Done([m1 EXCEPT !.vector_store = get_assistant_vector_store_id(m, a)],
                  "Choose an assistant", 0, TRUE, "set")
        ELSE Done(m1, "Choose an assistant", 0, TRUE, "remote fault")

\* 'Delete', lines 624-632, file i of the listing; delete_vector_store_file,
\* lines 156-170.
DeleteFile(m, i, ok) ==
    LET v == m.vector_store
    IN  IF ok
        THEN Done([m EXCEPT !.stores[v] =
                       SubSeq(@, 1, i - 1) \o SubSeq(@, i + 1, Len(@)),
                     !.refresh_files = TRUE],
                  "Delete", 0, TRUE, "ok")
        ELSE Done(m, "Delete", 0, TRUE, "error")

\* upload_additional_files(vector_store_id), lines 453-467: on a truthy
\* return the handler reads file_batch.status of a list and raises
\* AttributeError before it sets refresh_files.
upload_additional_files(m, uploaded_files, fail) ==
    LET op == "Upload Additional Files"
    IN  IF uploaded_files = << >>
        THEN Done(m, op, 0, FALSE, "warning")
        ELSE
          LET up == upload_files_to_vector_store(m, m.vector_store,
                                                 uploaded_files, fail)
              m1 == [up.m EXCEPT !.file_batches = up.returned]
          IN  IF ListTruthy(up.returned)
              THEN Done(m1, op, 0, TRUE, "fault")
              ELSE Done(m1, op, 0, TRUE, "error")

\* A script run of the sidebar becomes the next state.
ApplySidebar(r) ==
    /\ assistants' = r.s.assistants
    /\ assistant' = r.s.assistant
    /\ vector_store' = r.s.vector_store
    /\ refresh_files' = r.s.refresh_files
    /\ file_batches' = r.s.file_batches
    /\ stores' = r.s.stores
    /\ remote_assistants' = r.s.remote_assistants
    /\ last' = r.last
    /\ UNCHANGED << assistant_chat_histories, thread_id, nthreads, created,
                    posted_to, posted, posted_by, call, runs, disk >>

\* The model's bounds on the gateway's growth, on the state a run leaves.
SidebarRoom(r) ==
    /\ Len(r.s.stores) <= MaxStores
    /\ \A v \in 1..Len(r.s.stores) : Len(r.s.stores[v]) <= MaxDocs

\* A fresh session in a working directory holding some of the required files.
InitSidebar ==
    /\ assistants = {}
    /\ assistant = None
    /\ assistant_chat_histories = << >>
    /\ thread_id = NoThread
    /\ nthreads = 0
    /\ created = {}
    /\ posted_to = {}
    /\ posted = EmptyBag
    /\ posted_by = {}
    /\ last = [op |-> "start", tab |-> 0, called |-> FALSE, result |-> "set"]
    /\ call = IdleCall
    /\ runs = << >>
    /\ vector_store = NoStore
    /\ refresh_files = FALSE
    /\ file_batches = ReturnedNone
    /\ stores = << >>
    /\ remote_assistants = {}
    /\ disk \in SUBSET AllRequiredFiles
    /\ modal = EmptyModal

DoCreateAssistant ==
    \E uploaded_files \in UploadedFiles, assistant_name \in AssistantNames,
       assistant_type \in AssistantTypes :
      \E store \in BOOLEAN, fail \in UploadFailures,
         assistant_outcome \in {"ok", "create", "update"} :
        LET r == create_assistant_popup(Sidebar, disk, uploaded_files, assistant_name,
                     assistant_type,
                     [store |-> store, fail |-> fail, assistant |-> assistant_outcome])
        IN  /\ SidebarRoom(r)
            /\ ApplySidebar(r)
            /\ modal' = [ uploaded_files |-> uploaded_files,
                          create_assistant_name |-> assistant_name,
                          create_assistant_type |-> assistant_type ]

DoChooseAssistant ==
    /\ \E a \in assistants, ok \in BOOLEAN :
         ApplySidebar(ChooseAssistant(Sidebar, a, ok))
    /\ UNCHANGED modal

\* The widgets below the choice are rendered in a run whose retrieve call
\* returned, for the assistant the session holds.
DoDeleteFile ==
    /\ assistant \in assistants
    /\ vector_store = get_assistant_vector_store_id(Sidebar, assistant)
    /\ \E i \in 1..Len(stores[vector_store]), ok \in BOOLEAN :
         ApplySidebar(DeleteFile(Sidebar, i, ok))
    /\ UNCHANGED modal

\* What the user may select in the 'additional_files' uploader.
AdditionalFiles == { << >>, << "more.txt" >>, << "more.txt", "data.pdf" >> }

DoUploadAdditionalFiles ==
    /\ assistant \in assistants
    /\ vector_store = get_assistant_vector_store_id(Sidebar, assistant)
    /\ \E uploaded_files \in AdditionalFiles, fail \in 0..2 :
         LET r == upload_additional_files(Sidebar, uploaded_files, fail)
         IN  SidebarRoom(r) /\ ApplySidebar(r)
    /\ UNCHANGED modal

\* The modal and the choice of an assistant, from a fresh session.
NextSidebar ==
    \/ DoCreateAssistant
    \/ DoChooseAssistant

SpecSidebar == InitSidebar /\ [][NextSidebar]_vars

\* The files of a vector store, from a session whose one assistant was
\* created with one uploaded file.
InitFiles ==
    /\ assistants = {"F"}
    /\ assistant = "F"
    /\ assistant_chat_histories = ("F" :> NewChat)
    /\ thread_id = NoThread
    /\ nthreads = 0
    /\ created = {}
    /\ posted_to = {}
    /\ posted = EmptyBag
    /\ posted_by = {}
    /\ last = [op |-> "start", tab |-> 0, called |-> FALSE, result |-> "set"]
    /\ call = IdleCall
    /\ runs = << >>
    /\ vector_store = 1
    /\ refresh_files = FALSE
    /\ file_batches = ReturnedList(<< "notes.txt" >>)
    /\ stores = << << "notes.txt" >> >>
    /\ remote_assistants = {[id |-> "F", vector_store |-> 1]}
    /\ disk = {}
    /\ modal = EmptyModal

NextFiles ==
    \/ DoChooseAssistant
    \/ DoDeleteFile
    \/ DoUploadAdditionalFiles

SpecFiles == InitFiles /\ [][NextFiles]_vars

\* ------------------------------------------------------------- properties

\* The selected assistant's ConversationState: cursor, history, auxiliary.
cursor == current_chat(State).message_index
history == current_chat(State).conversation_history

AdvanceOps ==
    { "Submit Company Name", "Next Phase", "Proceed with Selected Slides",
      "Draft Pitchdeck Slides" }
ReplaceOps == {b.op : b \in ReplaceButtons \cup TabReplaceButtons}
ExtraOps == {"Next Question", "Show me all the questions"}

\* The workflow's length.
WorkflowLen == Len(PITCH_DECK_MESSAGES)

\* C1: a successful advance starts from cursor < len(W), increases cursor by
\* exactly 1 and appends exactly one history entry, labelled with the phase
\* name at the old cursor; the earlier entries are unchanged.
C1_AdvanceAppendsOne ==
    [][ (last'.op \in AdvanceOps /\ last'.result = "ok")
        => /\ cursor < WorkflowLen
           /\ cursor' = cursor + 1
           /\ Len(history') = Len(history) + 1
           /\ SubSeq(history', 1, Len(history)) = history
           /\ history'[Len(history')][1] = PITCH_DECK_PHASE_NAMES[cursor + 1] ]_vars

C1_Witness ==
    /\ last.op = "Proceed with Selected Slides"
    /\ last.result = "ok"
    /\ cursor = 3
    /\ Len(history) = 3

\* C2: with cursor = len(W) every advance trigger is rejected: no gateway
\* call is issued and the session and the gateway are left as they were.
C2_CompleteRejectsAdvance ==
    [][ (cursor = WorkflowLen /\ last'.op \in AdvanceOps)
        => /\ ~last'.called
           /\ last'.result \in {"error", "fault"}
           /\ UNCHANGED << assistant_chat_histories, thread_id, nthreads,
                           created, posted_to, posted, posted_by >> ]_vars

C2_Witness ==
    /\ cursor = WorkflowLen
    /\ last.op = "Draft Pitchdeck Slides"
    /\ last.result = "error"

\* C3: an advance whose gateway call gives no reply leaves cursor and
\* history as they were.
C3_FailedAdvanceKeepsCursorAndHistory ==
    [][ (last'.op \in AdvanceOps /\ last'.result = "failed")
        => (cursor' = cursor /\ history' = history) ]_vars

C3_Witness ==
    /\ last.op = "Next Phase"
    /\ last.result = "failed"
    /\ cursor = 1
    /\ CopiesIn(Raw(PITCH_DECK_MESSAGES[2]), posted) = 1

\* C4: an advance whose gateway call gives no reply leaves the whole
\* ConversationState, auxiliary fields included, as it was.
C4_FailedAdvanceIsNoOp ==
    [][ (last'.op \in AdvanceOps /\ last'.result = "failed")
        => assistant_chat_histories' = assistant_chat_histories ]_vars

\* C5: a successful replace_phase on entry i keeps cursor, the length of
\* history, and the label and place of entry i; every other entry is
\* unchanged.
C5_ReplaceTouchesOneContent ==
    [][ (last'.op \in ReplaceOps /\ last'.result = "ok")
        => /\ cursor' = cursor
           /\ Len(history') = Len(history)
           /\ last'.tab \in 1..Len(history)
           /\ history'[last'.tab][1] = history[last'.tab][1]
           /\ \A j \in 1..Len(history) : j # last'.tab => history'[j] = history[j] ]_vars

C5_Witness ==
    /\ last.op = "Submit Answers"
    /\ last.result = "ok"
    /\ last.tab = 3
    /\ Len(history) = 4
    /\ history[3][2] # history[4][2]

\* C6: a successful append_extra appends one entry at the end and changes
\* neither cursor nor the entries there; a failed one changes nothing.
C6_AppendExtra ==
    [][ /\ (last'.op \in ExtraOps /\ last'.result = "ok")
           => /\ cursor' = cursor
              /\ Len(history') = Len(history) + 1
              /\ SubSeq(history', 1, Len(history)) = history
        /\ (last'.op \in ExtraOps /\ last'.result = "failed")
           => assistant_chat_histories' = assistant_chat_histories ]_vars

C6_Witness ==
    /\ last.op = "Next Question"
    /\ last.result = "ok"
    /\ Len(history) = cursor + 1
    /\ history[Len(history)][1] = DraftAnswer(2)

\* C8: after a reset the thread handle is absent; the next message posted
\* goes to a thread created in that same call, one the gateway never gave
\* out before; between two resets at most one thread is created and every
\* message posted goes to it.
C8_OneThreadPerInterval ==
    /\ [](last.op = "Reset Conversation" => thread_id = NoThread)
    /\ [](/\ Cardinality(created) <= 1
          /\ posted_to \subseteq created
          /\ created = IF thread_id = NoThread THEN {} ELSE {thread_id})
    /\ [][ (thread_id = NoThread /\ posted_to' # posted_to)
           => /\ nthreads' = nthreads + 1
              /\ thread_id' = nthreads'
              /\ posted_to' = {thread_id'} ]_vars

C8_Witness ==
    /\ nthreads = 2
    /\ thread_id = 2
    /\ posted_to = {2}
    /\ CopiesIn(Format(PITCH_DECK_MESSAGES[1], "company_name", "Acme"), posted) = 1

\* C9: 0 <= cursor <= len(W) in every state, and cursor decreases only by
\* reset.
C9_CursorInRange ==
    /\ [](\A a \in DOMAIN assistant_chat_histories :
            /\ 0 <= assistant_chat_histories[a].message_index
            /\ assistant_chat_histories[a].message_index <= WorkflowLen)
    /\ [][ \A a \in DOMAIN assistant_chat_histories :
              assistant_chat_histories'[a].message_index
                  < assistant_chat_histories[a].message_index
              => last'.op = "Reset Conversation" ]_vars

C9_Witness ==
    /\ cursor = WorkflowLen
    /\ last.op = "Proceed with Selected Slides"
    /\ last.result = "fault"

SameChat(c) ==
    [c EXCEPT !.company_name = IF @ = Missing THEN "" ELSE @,
              !.selected_slides = IF @ = Missing THEN "" ELSE @]

Same(s) ==
    [s EXCEPT !.chats = [a \in DOMAIN @ |-> SameChat(@[a])],
              !.thread_id = IF @ = NoThread THEN NoThread ELSE 1,
              !.nthreads = IF s.thread_id = NoThread THEN 0 ELSE 1,
              !.created = {1 : t \in @},
              !.posted_to = {1 : t \in @},
              !.posted_by = {<< x[1], 1 >> : x \in @}]

\* Two script runs that end the same way in the same state.
SameRun(r1, r2) == Same(r1.s) = Same(r2.s) /\ r1.last = r2.last

\* The session a first script run leaves for one Pitch Deck assistant.
FreshSession ==
    [ assistant |-> "P", chats |-> ("P" :> NewChat), thread_id |-> NoThread,
      nthreads |-> 0, created |-> {}, posted_to |-> {}, posted |-> EmptyBag,
      posted_by |-> {} ]

\* Every widget is rendered in s exactly when it is in Same(s), and every
\* click on it, with every input and gateway outcome, ends the same way.
StepsAlike(s) ==
    LET n == Same(s)
    IN  /\ PossibleOutcomes(s) = PossibleOutcomes(n)
        /\ CompanyFormShown(s) = CompanyFormShown(n)
        /\ CompanyFormShown(s) =>
             \A c \in CompanyNames, o \in PossibleOutcomes(s) :
               SameRun(SubmitCompanyName(s, c, o), SubmitCompanyName(n, c, o))
        /\ \A i \in Tabs :
             /\ NextPhaseShown(s, i) = NextPhaseShown(n, i)
             /\ NextPhaseShown(s, i) =>
                  \A o \in PossibleOutcomes(s) :
                    SameRun(NextPhase(s, i, o), NextPhase(n, i, o))
             /\ SelectSlidesShown(s, i) = SelectSlidesShown(n, i)
             /\ SelectSlidesShown(s, i) =>
                  \A x \in SlideChoices :
                    SameRun(SelectSlides(s, i, x), SelectSlides(n, i, x))
             /\ ProceedShown(s, i) = ProceedShown(n, i)
             /\ ProceedShown(s, i) =>
                  \A o \in PossibleOutcomes(s) :
                    SameRun(ProceedWithSelectedSlides(s, i, o),
                            ProceedWithSelectedSlides(n, i, o))
             /\ DraftShown(s, i) = DraftShown(n, i)
             /\ DraftShown(s, i) =>
                  \A o \in PossibleOutcomes(s) :
                    SameRun(DraftPitchdeckSlides(s, i, o),
                            DraftPitchdeckSlides(n, i, o))
             /\ \A b \in ReplaceButtons :
                  /\ ReplaceShown(s, b, i) = ReplaceShown(n, b, i)
                  /\ ReplaceShown(s, b, i) =>
                       \A x \in UserTexts, o \in PossibleOutcomes(s) :
                         SameRun(ReplacePhase(s, b, i, x, o),
                                 ReplacePhase(n, b, i, x, o))
        /\ Same(reset_chat(s)) = Same(reset_chat(n))
        /\ \A a \in assistants :
             Same(SelectAssistant(s, a)) = Same(SelectAssistant(n, a))

C7_ResetIsFresh ==
    /\ last.op = "Reset Conversation" =>
         /\ current_chat(State) = ResetChatValue
         /\ thread_id = NoThread
         /\ Same(State) = FreshSession
    /\ StepsAlike(State)

\* A session reset after two phases, then advanced again: the company name
\* was asked for again and the first template went to a new thread.
C7_Witness ==
    /\ last.op = "Submit Company Name"
    /\ last.result = "ok"
    /\ nthreads = 2
    /\ cursor = 1
    /\ current_chat(State).selected_slides = Missing

\* How many times the template of workflow position k (1-based) was posted
\* to the gateway since the last reset, whatever was substituted into it.
TimesPosted(k) ==
    LET S == {m \in BagToSet(posted) : m.id = PITCH_DECK_MESSAGES[k].id}
    IN  BagCardinality([m \in S |-> posted[m]])

\* C11: between two resets the template of every position the cursor has
\* passed was posted exactly once, runs with a failed and retried advance
\* included; and a handler run from the tab of an already-appended phase other
\* than the last posts no template and moves no cursor.
C11_TemplatePostedOnce ==
    /\ [](\A k \in 1..WorkflowLen : cursor >= k => TimesPosted(k) = 1)
    /\ [][ (last'.tab \in 1..(Len(history) - 1))
           => (posted' = posted /\ cursor' = cursor) ]_vars

\* C12: the first template is only ever posted with a non-empty company name
\* substituted, the chat's company_name being that name; the third only with
\* a non-empty slide selection substituted, the chat's selected_slides being
\* that selection; neither goes out unformatted. An advance refused for a
\* missing field calls nothing and changes nothing. Resets and every tab
\* included.
C12_AuxiliaryGuards ==
    /\ [](\A m \in BagToSet(posted) :
            /\ m.id = PITCH_DECK_MESSAGES[1].id => m.arg \in CompanyNames \ {""}
            /\ m.id = PITCH_DECK_MESSAGES[3].id => m.arg \in SlideChoices \ {""})
    /\ [][ /\ TimesPosted(1)' > TimesPosted(1)
              => /\ Truthy(current_chat(State).company_name')
                 /\ Format(PITCH_DECK_MESSAGES[1], "company_name",
                           current_chat(State).company_name') \in BagToSet(posted')
           /\ TimesPosted(3)' > TimesPosted(3)
              => /\ Truthy(current_chat(State).selected_slides)
                 /\ Format(PITCH_DECK_MESSAGES[3], "selected_slides",
                           current_chat(State).selected_slides) \in BagToSet(posted')
           /\ (last'.op \in AdvanceOps /\ last'.result = "warning")
              => /\ ~last'.called
                 /\ UNCHANGED << assistant_chat_histories, thread_id, nthreads,
                                 created, posted_to, posted, posted_by >> ]_vars

\* After a reset the company name was asked for again and the third
\* template went out with the slides chosen since.
C12_Witness ==
    /\ nthreads = 2
    /\ last.op = "Proceed with Selected Slides"
    /\ cursor = 3
    /\ TimesPosted(1) = 1
    /\ TimesPosted(3) = 1

\* C13: under a gateway that brings every run to a terminal status, every
\* call of chat_with_assistant returns.
C13_CallReturns == (call.pc # "idle") ~> (call.pc = "idle")

\* C14: a script run for the selected assistant leaves every other
\* assistant's chat state as it was, and the session's thread handle too when
\* that thread holds another assistant's messages; and no thread holds the
\* messages of two assistants.
C14_AgentsIsolated ==
    /\ [][ \A b \in DOMAIN assistant_chat_histories \ {assistant'} :
             /\ assistant_chat_histories'[b] = assistant_chat_histories[b]
             /\ << b, thread_id >> \in posted_by => thread_id' = thread_id ]_vars
    /\ [](\A x, y \in posted_by : x[1] # y[1] => x[2] # y[2])

\* The vector store a creation attempt made in the step, and whether every
\* required file of the type entered is on disk.
NewStore == Len(stores')
AttemptMade == last'.op = "Create Assistant" /\ Len(stores') > Len(stores)
RequiredOnDisk(assistant_type) ==
    \A i \in 1..Len(RequiredFiles(assistant_type)) :
      RequiredFiles(assistant_type)[i] \in disk

\* C15: a creation attempt for a type one of whose required files is not on
\* disk ends with an error before any upload: the store it made holds no
\* file, the other stores hold what they held, and no assistant is created
\* remotely or added to the registry.
C15_MissingRequiredFile ==
    [][ (AttemptMade /\ ~RequiredOnDisk(modal'.create_assistant_type))
        => /\ last'.result = "error"
           /\ stores'[NewStore] = << >>
           /\ \A v \in 1..Len(stores) : stores'[v] = stores[v]
           /\ remote_assistants' = remote_assistants
           /\ assistants' = assistants
           /\ assistant' = assistant ]_vars

\* The last of the three Pitch Deck files is the missing one and the user
\* uploaded a file of their own.
C15_Witness ==
    /\ last.op = "Create Assistant"
    /\ last.result = "error"
    /\ modal.create_assistant_type = "Pitch Deck Creator"
    /\ modal.uploaded_files # << >>
    /\ disk = AllRequiredFiles \ {PITCH_DECK_CREATOR_REQUIRED_FILES[3]}
    /\ stores = << << >> >>

\* C16: when an upload of the batch fails after others succeeded, what
\* upload_files_to_vector_store returns is the list of the files attached.
C16_PartialListReturned ==
    [][ (AttemptMade /\ last'.result = "error" /\ stores'[NewStore] # << >>)
        => /\ ~file_batches'.none
           /\ file_batches'.list = stores'[NewStore] ]_vars

\* C17: no script run ends with the fault of a remote call leaving the
\* handler that made it.
C17_FaultsAreCaught == last.result # "remote fault"

\* C18: with a gateway that never fails, in every state where the selected
\* assistant's cursor is below the length of its workflow and the slides the
\* third template needs are chosen, a widget that advances is rendered.
C18_AdvanceEnabled ==
    ( /\ current_chat(State).message_index < Len(Workflow(assistant))
      /\ current_chat(State).message_index = 2
           => Truthy(current_chat(State).selected_slides) )
    => AdvanceShown(State)

\* The same for the Pitch Deck workflow alone.
C18_PitchDeckAdvanceEnabled == IsPitchDeck(State) => C18_AdvanceEnabled

\* C19: after an advance that failed at the gateway a widget that advances
\* from the same position is rendered again without a reset, and a later
\* advance that gets a reply moves cursor forward by one.
C19_RetryAfterFailure ==
    /\ []((last.op \in AdvanceOps /\ last.result = "failed") => AdvanceShown(State))
    /\ [][ (last'.op \in AdvanceOps /\ last'.result = "ok") => cursor' = cursor + 1 ]_vars

\* The same for the positions after the first.
C19_RetryAfterTheFirst ==
    (last.op \in AdvanceOps /\ last.result = "failed" /\ cursor >= 1)
    => AdvanceShown(State)

\* C20: a message is posted and a run is created on the session's thread
\* only when every earlier run on that thread has reached a terminal
\* status, so no thread ever has two runs in flight.
C20_OneRunInFlight ==
    /\ [][ (call.pc \in {"post", "run"} /\ call'.pc # call.pc)
           => \A r \in 1..Len(runs) :
                runs[r].thread = thread_id => runs[r].status \in TerminalStatuses ]_vars
    /\ [](\A r, q \in 1..Len(runs) :
            (r # q /\ runs[r].thread = runs[q].thread)
            => (runs[r].status \in TerminalStatuses
                \/ runs[q].status \in TerminalStatuses))

\* C21: an invocation of chat_with_assistant issues messages.create at most
\* once and runs.create at most once, the run only after the message, and
\* messages.list at most once and only with the run it created seen
\* completed; once it has returned, after a fault too, it issues nothing
\* more. Only runs.retrieve is issued repeatedly.
C21_EachCallOnce ==
    /\ [](/\ call.messages_created <= 1
          /\ call.runs_created <= call.messages_created
          /\ call.listed <= call.runs_created
          /\ call.listed = 1 => call.status = "completed")
    /\ [][ (call.pc = "idle" /\ call'.pc = "idle") => call' = call ]_vars
    /\ [][ call'.retrieves > call.retrieves
           => (call.pc = "poll" /\ call.runs_created = 1 /\ call.listed = 0) ]_vars

\* A call that polled more than once and returned a reply, after an earlier
\* call that a fault ended while its run was queued.
C21_Witness ==
    /\ call.pc = "idle"
    /\ last.result = "ok"
    /\ call.messages_created = 1
    /\ call.runs_created = 1
    /\ call.retrieves = MaxPolls
    /\ call.listed = 1
    /\ Len(runs) = 2
    /\ runs[1].status = "queued"

\* C22: a replace_phase interaction whose gateway call gives no reply leaves
\* the chat state of every assistant as it was: cursor, every history
\* entry's label and content, company name and selected slides.
C22_FailedReplaceIsNoOp ==
    [][ (last'.op \in ReplaceOps /\ last'.result = "failed")
        => /\ last'.called
           /\ cursor' = cursor
           /\ history' = history
           /\ assistant_chat_histories' = assistant_chat_histories ]_vars

\* 'Submit Answers' in the third tab failed with all auxiliary fields set.
C22_Witness ==
    /\ last.op = "Submit Answers"
    /\ last.result = "failed"
    /\ last.tab = 3
    /\ cursor = 3
    /\ Len(history) = 3
    /\ Truthy(current_chat(State).company_name)
    /\ Truthy(current_chat(State).selected_slides)

\* Lines 519-537: the list handed to upload_files_to_vector_store, the
\* user's files first and then the required files of the type.
FilesToUpload(uploaded_files, assistant_type) ==
    uploaded_files \o
    [i \in 1..Len(RequiredFiles(assistant_type)) |->
        basename(RequiredFiles(assistant_type)[i])]

\* C23: in every reachable state, a creation attempt whose k-th upload
\* raises leaves in the new store exactly the first k-1 files of the list,
\* in list order, leaves the other stores alone, creates no assistant
\* remotely and adds none to the registry, whatever the outcome the
\* assistant's creation would have had.
C23_UploadStopsAtFailure ==
    \A uploaded_files \in UploadedFiles, assistant_type \in AssistantTypes,
       k \in UploadFailures \ {0}, assistant_outcome \in {"ok", "create", "update"} :
      LET files == FilesToUpload(uploaded_files, assistant_type)
          r == create_assistant_popup(Sidebar, disk, uploaded_files, "Acme",
                   assistant_type,
                   [store |-> TRUE, fail |-> k, assistant |-> assistant_outcome])
      IN  (RequiredOnDisk(assistant_type) /\ k <= Len(files))
          => /\ r.last.result = "error"
             /\ Len(r.s.stores) = Len(stores) + 1
             /\ r.s.stores[Len(stores) + 1] = SubSeq(files, 1, k - 1)
             /\ \A v \in 1..Len(stores) : r.s.stores[v] = stores[v]
             /\ r.s.remote_assistants = remote_assistants
             /\ r.s.assistants = assistants
             /\ r.s.assistant = assistant

\* The third of four uploads raised: the user's file and the first required
\* file are attached, no assistant exists.
C23_Witness ==
    /\ last.op = "Create Assistant"
    /\ last.result = "error"
    /\ modal.create_assistant_type = "Pitch Deck Creator"
    /\ modal.uploaded_files = << "notes.txt" >>
    /\ RequiredOnDisk("Pitch Deck Creator")
    /\ stores = << << "notes.txt", basename(PITCH_DECK_CREATOR_REQUIRED_FILES[1]) >> >>
    /\ file_batches = ReturnedNone
    /\ remote_assistants = {}
    /\ assistants = {}

\* What the advance handlers rendered in state s leave when the call each
\* makes has outcome o.
AdvanceRuns(s, o) ==
    {SubmitCompanyName(s, company_name, o) :
        company_name \in {c \in CompanyNames : CompanyFormShown(s)}}
    \cup {NextPhase(s, i, o) : i \in {j \in Tabs : NextPhaseShown(s, j)}}
    \cup {ProceedWithSelectedSlides(s, i, o) : i \in {j \in Tabs : ProceedShown(s, j)}}
    \cup {DraftPitchdeckSlides(s, i, o) : i \in {j \in Tabs : DraftShown(s, j)}}

\* C24: a script run of an advance handler whose gateway run completes with
\* text t appends (phase name at cursor, t) to history and increases cursor
\* by 1, for every t the gateway may return, the empty string too.
C24_CompletedAdvanceAppends ==
    [][ \A text \in ReplyTexts : \A r \in AdvanceRuns(State, text) :
          (r.last.called /\ Apply(r))
          => /\ cursor' = cursor + 1
             /\ history' = Append(history, << PITCH_DECK_PHASE_NAMES[cursor + 1], text >>)
      ]_vars

\* The same for the replies that are not empty.
C24_NonEmptyReplyAppends ==
    [][ \A text \in Replies : \A r \in AdvanceRuns(State, text) :
          (r.last.called /\ Apply(r))
          => /\ cursor' = cursor + 1
             /\ history' = Append(history, << PITCH_DECK_PHASE_NAMES[cursor + 1], text >>)
      ]_vars

\* C25: in every state reached through chat_section the labels of history
\* are the first len(history) phase names of the workflow, in order.
C25_LabelsInOrder ==
    /\ Len(history) <= Len(PITCH_DECK_PHASE_NAMES)
    /\ \A i \in 1..Len(history) : history[i][1] = PITCH_DECK_PHASE_NAMES[i]

\* 'Proceed with Selected Slides' was clicked in the second tab with three
\* phases in history, and its reply became the fourth.
C25_Witness ==
    /\ last.op = "Proceed with Selected Slides"
    /\ last.result = "ok"
    /\ last.tab = 2
    /\ Len(history) = 4
    /\ history[4][1] = PITCH_DECK_PHASE_NAMES[4]

\* C26: a creation attempt that ends without an assistant (a required file
\* missing, nothing to upload, an upload or the assistant's creation
\* failing) has created no vector store and leaves the session's
\* vector_store, assistants and assistant as they were.
C26_AbortLeavesNoTrace ==
    [][ (last'.op = "Create Assistant" /\ last'.result \in {"error", "failed"})
        => /\ stores' = stores
           /\ vector_store' = vector_store
           /\ assistants' = assistants
           /\ assistant' = assistant ]_vars

\* The part of it that holds: the registry and the selection are kept.
C26_AbortKeepsRegistry ==
    [][ (last'.op = "Create Assistant" /\ last'.result \in {"error", "failed"})
        => /\ assistants' = assistants
           /\ assistant' = assistant ]_vars

\* C27: between script runs the chat_history of every assistant alternates
\* user and assistant entries, beginning with a user entry and ending with
\* the reply to the last one, after a failed call too.
C27_ChatAlternates ==
    \A a \in DOMAIN assistant_chat_histories :
      LET chat_history == assistant_chat_histories[a].chat_history
      IN  /\ Len(chat_history) % 2 = 0
          /\ \A i \in 1..Len(chat_history) :
               chat_history[i].role = IF i % 2 = 1 THEN "user" ELSE "assistant"

\* What holds of it: a free-chat run whose call gives a reply appends the
\* user's entry and then the reply.
C27_ReplyFollowsMessage ==
    [][ (last'.op = "Enter your message" /\ last'.result = "ok")
        => \E user_message \in UserTexts, response \in Replies :
             current_chat(State)'.chat_history =
               current_chat(State).chat_history
               \o << [role |-> "user", content |-> user_message],
                     [role |-> "assistant", content |-> response] >> ]_vars

\* C28: a run of 'Upload Additional Files' with a non-empty selection all of
\* whose uploads succeed (upload_files_to_vector_store returns the list of
\* the batches) ends without a fault and with refresh_files set.
C28_UploadSetsRefresh ==
    [][ (/\ last'.op = "Upload Additional Files"
         /\ last'.called
         /\ ListTruthy(file_batches'))
        => /\ last'.result = "ok"
           /\ refresh_files' ]_vars

====
